---------------------------- MODULE Spec2Model ----------------------------
(***************************************************************************)
(* Job queue, scheduler and validation pipeline of the timecard processor. *)
(*                                                                         *)
(* backend/database.py   DatabaseManager: the persisted queue store        *)
(* backend/job_queue.py  JobQueue: pass-through facade over the store      *)
(* backend/app.py        job_processor / process_job and the job endpoints *)
(* backend/timecard_pipeline.py  extraction post-processing and verdict    *)
(*                                                                         *)
(* Money is counted in cents, so the tolerance 0.01 of the pipeline is 1.  *)
(* A timestamp is the reading of the clock at the write, or NullTime;       *)
(* updated_at, rewritten by every matched write, is not tracked.           *)
(***************************************************************************)
EXTENDS Integers, Sequences, FiniteSets, TLC

(***************************************************************************)
(* Bounds of the model.                                                    *)
(***************************************************************************)
MaxJobs == 2
MaxQueued == 4
NumCallers == 2
MaxCeiling == 1
MaxInFlight == 1
MaxStored == 2
MaxReviewed == 1
MaxClock == 2
MaxDays == 1

\* Ids are handed out in order; one more than can be created stands for an id
\* that never exists.
MaxIds == (IF MaxJobs > MaxQueued THEN MaxJobs ELSE MaxQueued) + 1
JobIds == 1..MaxIds
Callers == 1..NumCallers

(***************************************************************************)
(* database.py: enumerations.                                              *)
(***************************************************************************)
PENDING == "pending"
PROCESSING == "processing"
COMPLETED == "completed"
FAILED == "failed"
CANCELLED == "cancelled"
JobStatus == {PENDING, PROCESSING, COMPLETED, FAILED, CANCELLED}
TerminalStatus == {COMPLETED, FAILED, CANCELLED}

LOW == 1
NORMAL == 2
HIGH == 3
URGENT == 4
JobPriority == {LOW, NORMAL, HIGH, URGENT}

(***************************************************************************)
(* Optional arguments and NULL columns.                                    *)
(***************************************************************************)
NoProgress == -1
NullTime == -1
NoCount == -1
NullStr == "NULL"
NoValidation ==
    [validation_result |-> "NULL", requires_human_review |-> FALSE,
     review_completed |-> FALSE, review_completed_at |-> NullTime]
NullResult == [status |-> "NULL", error |-> NullStr, validation |-> NoValidation]

VARIABLES
    use_postgres,   \* DatabaseManager.use_postgres: which backend the store runs on
    jobs,           \* the jobs table: id -> row
    next_id,        \* ids handed out so far + 1 (an id is never reused)
    clock,          \* the wall clock read by created_at's default
    locked,         \* rows held by SELECT ... FOR UPDATE (PostgreSQL only)
    sel,            \* per get_next_job call in flight: the row its SELECT returned (0: none)
    claim_count,    \* history: how many get_next_job calls have returned each job id
    cancel_ok,      \* history: ids for which cancel_job has returned True
    last_cancel,    \* the most recent return of cancel_job ("none" before the first)
    last_review,    \* the most recent answer of complete_review ("none" before the first)
    last_cleanup,   \* the most recent return of cleanup_old_jobs (NoCount before the first)
    active_jobs,    \* job_processor.active_jobs (keys)
    worker_pc,      \* process_job thread of each job: its position
    worker_result,  \* process_job: the value pipeline.process returned
    worker_error,   \* process_job: str(e) of the exception being handled
    stop_req,       \* stop_job requests past their status check
    delete_req,     \* delete_job requests past their status check
    review_req,     \* complete_review requests past their check: id -> job.result read
    max_concurrent, \* job_processor.max_concurrent, read from the configuration at start
    pipe_pc,        \* one run of the extraction pipeline: its position
    response,       \* the provider's answer: tool-use payload and guardrail trace
    extracted,      \* step2_llm_extraction's return value
    validation,     \* step3_automated_reasoning's return value
    record,         \* a record handed to the consistency engine and the post-processor
    report,         \* the engine's answers on record: the five booleans and the error list
    outputs,        \* _post_process_extracted_data's successive returns, each fed the last
    retry_pc,       \* one run of _call_bedrock_with_retry: its position
    attempt,        \* _call_bedrock_with_retry: the loop variable
    converse_log,   \* the outcomes of the run's bedrock.converse calls, in order
    retry_raised,   \* the exception the run left with (NullStr: none)
    lock_setting,   \* the stored setting automated_reasoning_provisioning_lock
    lock_seen,      \* per ensure_provisioned call: what its read of the setting returned
    prov_pc,        \* per ensure_provisioned call: its position
    lock_now,       \* time.time(), in seconds
    store_up,       \* whether the job store answers
    outages,        \* how many times the store has gone away
    sched_pc        \* job_processor: "run" in the loop body, "backoff" in the except clause

dbvars == <<use_postgres, jobs, next_id, clock, locked>>
respvars == <<last_review, last_cleanup>>
histvars == <<claim_count, cancel_ok, last_cancel, respvars>>
workervars == <<active_jobs, worker_pc, worker_result, worker_error>>
apivars == <<stop_req, delete_req, review_req>>

\* endpoint requests between their read of the row and their write
InFlight == Cardinality(stop_req) + Cardinality(delete_req) + Cardinality(DOMAIN review_req)
queuevars == <<dbvars, max_concurrent, sel, histvars, workervars, apivars>>
enginevars == <<record, report, outputs>>
retryvars == <<retry_pc, attempt, converse_log, retry_raised>>
lockvars == <<lock_setting, lock_seen, prov_pc, lock_now>>
faultvars == <<store_up, outages, sched_pc>>
sidevars == <<retryvars, lockvars, faultvars>>
pipevars == <<pipe_pc, response, extracted, validation, enginevars, sidevars>>
vars == <<queuevars, pipevars>>

(***************************************************************************)
(* database.py: the store's operations as functions of the table.          *)
(***************************************************************************)
NewRow(priority, now) ==
    [status |-> PENDING, priority |-> priority, created_at |-> now,
     started_at |-> NullTime, completed_at |-> NullTime, progress |-> 0,
     result |-> NullResult, error |-> NullStr]

\* session.add(job); session.commit()
create_job(tbl, id, priority, now) ==
    [j \in DOMAIN tbl \cup {id} |-> IF j = id THEN NewRow(priority, now) ELSE tbl[j]]

\* filter(status == PENDING).order_by(priority.desc(), created_at.asc()).first()
\* over the rows in avail; rows equal in both keys come back in any order.
PendingIn(tbl, avail) == {j \in DOMAIN tbl \cap avail : tbl[j].status = PENDING}
Precedes(tbl, j, k) ==
    \/ tbl[j].priority > tbl[k].priority
    \/ tbl[j].priority = tbl[k].priority /\ tbl[j].created_at <= tbl[k].created_at
\* the ORDER BY of get_next_job without its priority key
FirstPending_by_age(tbl, avail) ==
    {j \in PendingIn(tbl, avail) :
        \A k \in PendingIn(tbl, avail) : tbl[j].created_at <= tbl[k].created_at}
FirstPending(tbl, avail) ==
    {j \in PendingIn(tbl, avail) : \A k \in PendingIn(tbl, avail) : Precedes(tbl, j, k)}

\* get_next_job: the flush of job_model's changed attributes, UPDATE ... WHERE id = :id
claim_row(tbl, id, now) ==
    [tbl EXCEPT ![id].status = PROCESSING, ![id].started_at = now]

\* update_job_status that writes progress 0 when it is given none
update_job_status_resets_progress(tbl, id, status, progress, result, error, now) ==
    [tbl EXCEPT ![id] =
        [@ EXCEPT
            !.status = status,
            !.progress = IF progress # NoProgress THEN progress ELSE 0,
            !.result = IF result # NullResult THEN result ELSE @,
            !.error = IF error # NullStr THEN error ELSE @,
            !.started_at =
                IF status = PROCESSING /\ tbl[id].started_at = NullTime THEN now ELSE @,
            !.completed_at = IF status \in TerminalStatus THEN now ELSE @]]
\* update_job_status that never stores the result it is given
update_job_status_drops_result(tbl, id, status, progress, result, error, now) ==
    [tbl EXCEPT ![id] =
        [@ EXCEPT
            !.status = status,
            !.progress = IF progress # NoProgress THEN progress ELSE @,
            !.error = IF error # NullStr THEN error ELSE @,
            !.started_at =
                IF status = PROCESSING /\ tbl[id].started_at = NullTime THEN now ELSE @,
            !.completed_at = IF status \in TerminalStatus THEN now ELSE @]]
\* update_job_status, for a row that exists
update_job_status(tbl, id, status, progress, result, error, now) ==
    [tbl EXCEPT ![id] =
        [@ EXCEPT
            !.status = status,
            !.progress = IF progress # NoProgress THEN progress ELSE @,
            !.result = IF result # NullResult THEN result ELSE @,
            !.error = IF error # NullStr THEN error ELSE @,
            !.started_at =
                IF status = PROCESSING /\ tbl[id].started_at = NullTime THEN now ELSE @,
            !.completed_at = IF status \in TerminalStatus THEN now ELSE @]]

\* the UPDATE of cancel_job without its status condition
cancel_matches_any_status(tbl, id) == id \in DOMAIN tbl
\* cancel_job: UPDATE ... WHERE id = :id AND status = 'pending'; the rows matched
cancel_matches(tbl, id) == id \in DOMAIN tbl /\ tbl[id].status = PENDING
cancel_job(tbl, id) ==
    IF cancel_matches(tbl, id) THEN [tbl EXCEPT ![id].status = CANCELLED] ELSE tbl

\* delete_job
delete_job(tbl, id) == [j \in DOMAIN tbl \ {id} |-> tbl[j]]

\* the DELETE of cleanup_old_jobs without its completed_at condition
cleanup_matches_any_age(tbl, cutoff) ==
    {j \in DOMAIN tbl : tbl[j].status \in TerminalStatus}
\* cleanup_old_jobs: DELETE ... WHERE status IN (...) AND completed_at < :cutoff;
\* the rows matched (a NULL completed_at compares as unknown, so it never matches)
cleanup_matches(tbl, cutoff) ==
    {j \in DOMAIN tbl :
        /\ tbl[j].status \in {COMPLETED, FAILED, CANCELLED}
        /\ tbl[j].completed_at # NullTime
        /\ tbl[j].completed_at < cutoff}
cleanup_old_jobs(tbl, cutoff) ==
    [j \in DOMAIN tbl \ cleanup_matches(tbl, cutoff) |-> tbl[j]]


(***************************************************************************)
(* timecard_pipeline.py: what pipeline.process can hand back to            *)
(* process_job.  It never raises: an exception of any step is caught and   *)
(* returned as {"status": "error", "error": str(e)}.  A success carries    *)
(* the verdict of step3_automated_reasoning; the queue reads nothing of it *)
(* but requires_human_review, so one verdict of each kind is drawn.        *)
(***************************************************************************)
PipelineError == "Excel conversion failed"
Verdict(vr, review) ==
    [validation_result |-> vr, requires_human_review |-> review,
     review_completed |-> FALSE, review_completed_at |-> NullTime]
SuccessResult(v) == [status |-> "success", error |-> NullStr, validation |-> v]
ErrorResult(msg) == [status |-> "error", error |-> msg, validation |-> NoValidation]
ProcessResults ==
    {SuccessResult(Verdict("VALID", FALSE)), SuccessResult(Verdict("INVALID", TRUE)),
     ErrorResult(PipelineError)}

(***************************************************************************)
(* timecard_pipeline.py: the extracted record and its consistency checks.  *)
(* A daily entry is the array [employee, date, rate, project, department]; *)
(* the provider may send it short, with an empty field or a negative rate. *)
(* Amounts are integers (cents); a quotient is kept exact by comparing     *)
(* cross-multiplied.  A difference of one cent stands for a difference of  *)
(* exactly 0.01, as between 0.01 and 0.0.                                  *)
(***************************************************************************)
MaxEntries == 2
MaxFindings == 1

Abs(x) == IF x < 0 THEN -x ELSE x
\* round(x / n, 2) on an amount x in cents: the nearest cent, a tie to the even cent
RoundDiv(x, n) ==
    LET q == x \div n
        r == x % n
    IN  IF 2 * r < n THEN q
        ELSE IF 2 * r > n THEN q + 1
        ELSE IF q % 2 = 0 THEN q ELSE q + 1

EntrySet ==
    {<<"Ann", "2025-01-01", 30000, "Show", "Grip">>,
     <<"Ann", "2025-01-02", 40000, "Show", "Grip">>,
     <<"Bob", "2025-01-01", 40001, "Show", "Grip">>,
     <<"Bob", "2025-01-03", -5000, "Show", "Grip">>,
     <<"Cy", "2025-01-02", 10000, "", "Grip">>,
     <<"Cy", "2025-01-03", 20000>>}
EntryLists == UNION {[1..n -> EntrySet] : n \in 0..MaxEntries}

\* float(entry[2]) if len(entry) > 2 else 0
RateOf(entry) == IF Len(entry) > 2 THEN entry[3] ELSE 0
RECURSIVE SumRates(_)
SumRates(entries) ==
    IF entries = <<>> THEN 0 ELSE RateOf(Head(entries)) + SumRates(Tail(entries))
\* set(entry[0] for entry in daily_entries if len(entry) > 0)
EmployeesOf(entries) == {entries[i][1] : i \in {k \in DOMAIN entries : Len(entries[k]) > 0}}

\* tolerance = 0.01
Tolerance == 1

\* the loop over entries at the end of _is_mathematically_consistent
FieldsPresent(entry) ==
    /\ ~(Len(entry) < 5)
    /\ ~(entry[1] = "" \/ entry[2] = "" \/ entry[4] = "" \/ entry[5] = "")

_is_mathematically_consistent(d) ==
    LET entries == d.daily_entries
        n == Len(entries)
        actual_sum == SumRates(entries)
    IN  IF entries = <<>>
        THEN d.total_wage = 0 /\ d.average_daily_rate = 0 /\ d.total_days = 0
        ELSE /\ ~(Abs(actual_sum - d.total_wage) > Tolerance)
             /\ ~(Abs(actual_sum - n * d.average_daily_rate) > n * Tolerance)
             /\ ~(Cardinality(EmployeesOf(entries)) # d.employee_count)
             /\ ~(n # d.total_days)
             /\ ~(\E i \in DOMAIN entries : Len(entries[i]) > 2 /\ entries[i][3] < 0)
             /\ \A i \in DOMAIN entries : FieldsPresent(entries[i])

_check_sum_calculation(d) ==
    IF d.daily_entries = <<>>
    THEN d.total_wage = 0
    ELSE Abs(SumRates(d.daily_entries) - d.total_wage) < Tolerance

_check_average_calculation(d) ==
    LET n == Len(d.daily_entries)
    IN  IF d.daily_entries = <<>>
        THEN d.average_daily_rate = 0
        ELSE Abs(d.total_wage - n * d.average_daily_rate) < n * Tolerance

_check_count_consistency(d) ==
    IF d.daily_entries = <<>>
    THEN d.employee_count = 0 /\ d.total_days = 0
    ELSE /\ ~(Cardinality(EmployeesOf(d.daily_entries)) # d.employee_count)
         /\ ~(Len(d.daily_entries) # d.total_days)

_check_data_integrity(d) ==
    \A i \in DOMAIN d.daily_entries :
        /\ FieldsPresent(d.daily_entries[i])
        /\ ~(d.daily_entries[i][3] < 0)

\* One entry of the error list: which check, and the two figures its message prints.
Issue(kind, reported, computed) == [kind |-> kind, reported |-> reported, computed |-> computed]
_get_mathematical_errors_first_only(d) ==
    IF ~_check_sum_calculation(d)
    THEN <<Issue("Sum calculation error", d.total_wage, SumRates(d.daily_entries))>>
    ELSE IF ~_check_average_calculation(d)
    THEN <<Issue("Average calculation error", d.average_daily_rate,
                 IF d.daily_entries # <<>>
                 THEN RoundDiv(d.total_wage, Len(d.daily_entries)) ELSE 0)>>
    ELSE IF ~_check_count_consistency(d)
    THEN <<Issue("Employee count mismatch", d.employee_count,
                 Cardinality(EmployeesOf(d.daily_entries)))>>
    ELSE IF ~_check_data_integrity(d)
    THEN <<Issue("Data integrity issues", 0, 0)>>
    ELSE <<>>
_get_mathematical_errors(d) ==
    LET entries == d.daily_entries
        n == Len(entries)
        uniq == Cardinality(EmployeesOf(entries))
        sum_err == IF ~_check_sum_calculation(d)
                   THEN <<Issue("Sum calculation error", d.total_wage, SumRates(entries))>>
                   ELSE <<>>
        avg_err == IF ~_check_average_calculation(d)
                   THEN <<Issue("Average calculation error", d.average_daily_rate,
                                IF n > 0 THEN RoundDiv(d.total_wage, n) ELSE 0)>>
                   ELSE <<>>
        emp_err == IF ~_check_count_consistency(d) /\ uniq # d.employee_count
                   THEN <<Issue("Employee count mismatch", d.employee_count, uniq)>>
                   ELSE <<>>
        len_err == IF ~_check_count_consistency(d) /\ n # d.total_days
                   THEN <<Issue("Timecard count mismatch", d.total_days, n)>>
                   ELSE <<>>
        int_err == IF ~_check_data_integrity(d)
                   THEN <<Issue("Data integrity issues", 0, 0)>>
                   ELSE <<>>
    IN  sum_err \o avg_err \o emp_err \o len_err \o int_err

(***************************************************************************)
(* _post_process_extracted_data: the aggregates recomputed from the        *)
(* entries that have all five fields, written over the record's own.       *)
(***************************************************************************)
Complete(entries) == SelectSeq(entries, LAMBDA e : Len(e) >= 5)
\* float(entry[2]) if entry[2] else 0.0
RECURSIVE SumComplete(_)
SumComplete(entries) ==
    IF entries = <<>> THEN 0 ELSE Head(entries)[3] + SumComplete(Tail(entries))
DatesOf(entries) == {entries[i][2] : i \in DOMAIN entries}
NamesOf(entries) == {entries[i][1] : i \in DOMAIN entries}
\* sorted(list(unique_dates))[0] and [-1]; the dates are ISO strings of one month,
\* ordered by their day
DayOf(date) ==
    CASE date = "2025-01-01" -> 1
      [] date = "2025-01-02" -> 2
      [] date = "2025-01-03" -> 3
      [] OTHER -> 0
NoDate == "N/A"
FirstDate(dates) ==
    IF dates = {} THEN NoDate
    ELSE CHOOSE x \in dates : \A y \in dates : DayOf(x) <= DayOf(y)
LastDate(dates) ==
    IF dates = {} THEN NoDate
    ELSE CHOOSE x \in dates : \A y \in dates : DayOf(y) <= DayOf(x)

_post_process_extracted_data_accumulating(d) ==
    IF d.daily_entries = <<>>
    THEN d
    ELSE LET full == Complete(d.daily_entries)
             total_timecards == Len(d.daily_entries)
             total_wage == d.total_wage + SumComplete(full)
         IN  [d EXCEPT
                !.total_timecards = total_timecards,
                !.total_days = total_timecards,
                !.unique_days = Cardinality(DatesOf(full)),
                !.employee_count = Cardinality(NamesOf(full)),
                !.employee_list = NamesOf(full),
                !.total_wage = total_wage,
                !.average_daily_rate = RoundDiv(total_wage, total_timecards),
                !.pay_period_start = FirstDate(DatesOf(full)),
                !.pay_period_end = LastDate(DatesOf(full))]
_post_process_extracted_data(d) ==
    IF d.daily_entries = <<>>
    THEN d
    ELSE LET full == Complete(d.daily_entries)
             total_timecards == Len(d.daily_entries)
             total_wage == SumComplete(full)
         IN  [d EXCEPT
                !.total_timecards = total_timecards,
                !.total_days = total_timecards,
                !.unique_days = Cardinality(DatesOf(full)),
                !.employee_count = Cardinality(NamesOf(full)),
                !.employee_list = NamesOf(full),
                !.total_wage = total_wage,
                !.average_daily_rate = RoundDiv(total_wage, total_timecards),
                !.pay_period_start = FirstDate(DatesOf(full)),
                !.pay_period_end = LastDate(DatesOf(full))]

(***************************************************************************)
(* step2_llm_extraction, from the provider's response on: the guardrail    *)
(* findings are judged, the flags are attached to the tool-use payload,    *)
(* the consistency flag is computed and the record is post-processed.      *)
(***************************************************************************)
\* A finding: its kind (the key it carries), whether one of its claims reads as
\* an error, and its "result" entry if it has one.
Finding(kind, flagged, result) == [kind |-> kind, flagged |-> flagged, result |-> result]
FindingSet ==
    {Finding("valid", FALSE, "NULL"), Finding("valid", FALSE, "INVALID"),
     Finding("invalid", FALSE, "NULL"), Finding("invalid", FALSE, "INVALID"),
     Finding("satisfiable", TRUE, "NULL")}
FindingLists == UNION {[1..n -> FindingSet] : n \in 0..MaxFindings}
GuardrailActions == {"NONE", "GUARDRAIL_INTERVENED", "BLOCKED"}

\* confidences in hundredths
Min(a, b) == IF a < b THEN a ELSE b
RECURSIVE ProcessFindings(_, _, _)
ProcessFindings(findings, passed, confidence) ==
    IF findings = <<>> THEN <<passed, confidence>>
    ELSE LET f == Head(findings)
         IN  IF f.kind = "invalid"
             THEN ProcessFindings(Tail(findings), FALSE, Min(confidence, 30))
             ELSE IF f.kind = "satisfiable"
             THEN IF f.flagged
                  THEN ProcessFindings(Tail(findings), FALSE, Min(confidence, 60))
                  ELSE ProcessFindings(Tail(findings), passed, confidence)
             ELSE IF f.kind = "valid"
             THEN IF f.flagged
                  THEN ProcessFindings(Tail(findings), FALSE, Min(confidence, 70))
                  ELSE ProcessFindings(Tail(findings), passed, confidence)
             ELSE IF f.kind = "noTranslations"
             THEN ProcessFindings(Tail(findings), passed, Min(confidence, 80))
             ELSE ProcessFindings(Tail(findings), passed, confidence)
_process_ar_findings(findings) == ProcessFindings(findings, TRUE, 100)

\* What the provider's answer holds: a tool-use input, a text that parses as JSON,
\* a text that does not, a content list with neither, a message without content,
\* or no answer at all (the call raised).
Extractable == {"tool_use", "text"}
Outcomes == Extractable \cup {"bad_text", "no_text", "no_content", "raised"}
\* str(e) of the exception the try block ends with
NoContent == "No content in response"
NoToolUseOrText == "No tool use or text content found in response"
JSONDecodeError == "Expecting value: line 1 column 1 (char 0)"
ClientError == "An error occurred when calling the Converse operation"
FailureOf(r) ==
    CASE r.outcome = "raised" -> ClientError
      [] r.outcome = "no_content" -> NoContent
      [] r.outcome = "no_text" -> NoToolUseOrText
      [] r.outcome = "bad_text" -> JSONDecodeError
      [] OTHER -> NullStr

\* lines 411-415, 456: the defaults, replaced when findings came back
ValidationPassed(r) ==
    IF r.findings # <<>> THEN _process_ar_findings(r.findings)[1] ELSE TRUE
ValidationConfidence(r) ==
    IF r.findings # <<>> THEN _process_ar_findings(r.findings)[2] ELSE 100

\* lines 612-634: the payload with the validation fields attached
Attach(r) ==
    LET d == r.payload
    IN  [employee_count |-> d.employee_count,
         employee_list |-> d.employee_list,
         total_timecards |-> d.total_timecards,
         total_days |-> d.total_days,
         unique_days |-> d.unique_days,
         total_wage |-> d.total_wage,
         average_daily_rate |-> d.average_daily_rate,
         pay_period_start |-> d.pay_period_start,
         pay_period_end |-> d.pay_period_end,
         daily_entries |-> d.daily_entries,
         extraction_method |-> IF r.guardrail_action # "NONE"
                               THEN "tool_use_with_guardrail" ELSE "tool_use",
         validation_passed |-> ValidationPassed(r),
         validation_method |-> IF r.findings # <<>> THEN "automated_reasoning" ELSE "none",
         validation_findings |-> r.findings,
         validation_confidence |-> ValidationConfidence(r),
         guardrail_action |-> r.guardrail_action,
         mathematical_consistency |-> _is_mathematically_consistent(d)]

\* lines 649-668: the record the except branch returns
Degraded_without_message(msg) ==
    [employee_count |-> 0, employee_list |-> {}, total_timecards |-> 0,
     total_days |-> 0, unique_days |-> 0, total_wage |-> 0, average_daily_rate |-> 0,
     pay_period_start |-> "2025-01-01", pay_period_end |-> "2025-01-31",
     daily_entries |-> <<>>, extraction_method |-> "fallback", error |-> NullStr]
Degraded(msg) ==
    [employee_count |-> 0, employee_list |-> {}, total_timecards |-> 0,
     total_days |-> 0, unique_days |-> 0, total_wage |-> 0, average_daily_rate |-> 0,
     pay_period_start |-> "2025-01-01", pay_period_end |-> "2025-01-31",
     daily_entries |-> <<>>, extraction_method |-> "fallback", error |-> msg]

step2_llm_extraction(r) ==
    IF r.outcome \in Extractable
    THEN _post_process_extracted_data(Attach(r))
    ELSE Degraded(FailureOf(r))

(***************************************************************************)
(* step3_automated_reasoning: the issue list and the verdict.  The record  *)
(* is read with dict.get, a missing key giving the default.                *)
(***************************************************************************)
Get(d, key, default) == IF key \in DOMAIN d THEN d[key] ELSE default
RuleIssue == Issue("Data integrity issue", 0, 0)
GenericIssue == Issue("Mathematical inconsistencies detected", 0, 0)
\* one issue per finding whose "result" is INVALID
RECURSIVE RuleIssues(_)
RuleIssues(findings) ==
    IF findings = <<>> THEN <<>>
    ELSE (IF Head(findings).result = "INVALID" THEN <<RuleIssue>> ELSE <<>>)
         \o RuleIssues(Tail(findings))
ValidationIssues(d) ==
    LET validation_passed == Get(d, "validation_passed", TRUE)
        validation_method == Get(d, "validation_method", "none")
        validation_findings == Get(d, "validation_findings", <<>>)
        mathematical_consistency == Get(d, "mathematical_consistency", TRUE)
        from_step2 ==
            IF ~validation_passed
            THEN IF validation_method = "automated_reasoning"
                 THEN RuleIssues(validation_findings)
                 ELSE IF ~mathematical_consistency THEN <<GenericIssue>> ELSE <<>>
            ELSE <<>>
        fallback ==
            IF validation_method = "none" /\ ~mathematical_consistency
            THEN _get_mathematical_errors(d)
            ELSE <<>>
    IN  from_step2 \o fallback

FinalResult(d, issues) ==
    IF Get(d, "guardrail_action", "NONE") \in {"GUARDRAIL_INTERVENED", "BLOCKED"}
    THEN "INVALID"
    ELSE IF issues # <<>> THEN "INVALID"
    ELSE IF Get(d, "validation_passed", TRUE) THEN "VALID"
    ELSE "SATISFIABLE"

step3_automated_reasoning(d) ==
    LET issues == ValidationIssues(d)
    IN  [validation_result |-> FinalResult(d, issues),
         total_days |-> d.total_days,
         unique_days |-> d.unique_days,
         average_daily_rate |-> d.average_daily_rate,
         total_wage |-> d.total_wage,
         validation_issues |-> issues,
         requires_human_review |-> Len(issues) > 0,
         reasoning_confidence |-> Get(d, "validation_confidence", 0),
         reasoning_findings |-> Get(d, "validation_findings", <<>>),
         automated_reasoning_result |-> Get(d, "guardrail_action", "NONE"),
         validation_method |-> Get(d, "validation_method", "none"),
         mathematical_consistency |-> Get(d, "mathematical_consistency", TRUE),
         sum_correct |-> _check_sum_calculation(d),
         average_correct |-> _check_average_calculation(d),
         count_correct |-> _check_count_consistency(d),
         data_integrity |-> _check_data_integrity(d)]

(***************************************************************************)
(* The provider responses the pipeline is run on: every entry list, with   *)
(* reported aggregates at and around the values the entries give.          *)
(***************************************************************************)
WageDeltas == {0, 1, 2, 10000}
AverageDeltas == {0, 1, 2}
Payload(es, ec, tc, td, tw, avg) ==
    [employee_count |-> ec, employee_list |-> {}, total_timecards |-> tc,
     total_days |-> td, unique_days |-> 0, total_wage |-> tw,
     average_daily_rate |-> avg, pay_period_start |-> NoDate,
     pay_period_end |-> NoDate, daily_entries |-> es]
Response(outcome, payload, action, findings) ==
    [outcome |-> outcome, payload |-> payload, guardrail_action |-> action,
     findings |-> findings]
ReportedCounts(n) == {n, n + 1}
ReportedWages(es) == {SumRates(es) + dw : dw \in WageDeltas}
ReportedAverages(es, tw) ==
    IF es = <<>> THEN {0, 1}
    ELSE {RoundDiv(SumRates(es), Len(es)) + da : da \in AverageDeltas}
         \cup {RoundDiv(tw, Len(es))}
NoRecord == [none |-> TRUE]

(***************************************************************************)
(* Initial state: an empty store, no request in flight, an idle scheduler. *)
(***************************************************************************)
NoLock == [none |-> TRUE]
ProvCallers == 1..2

\* no Bedrock call under way, no lock stored, the store up, the scheduler in its loop
SideIdle ==
    /\ retry_pc = "idle"
    /\ attempt = 0
    /\ converse_log = <<>>
    /\ retry_raised = NullStr
    /\ lock_setting = NoLock
    /\ lock_seen = [c \in ProvCallers |-> NoLock]
    /\ prov_pc = [c \in ProvCallers |-> "idle"]
    /\ lock_now = 0
    /\ store_up = TRUE
    /\ outages = 0
    /\ sched_pc = "run"

QueueInit ==
    /\ SideIdle
    /\ jobs = [j \in {} |-> NewRow(NORMAL, 0)]
    /\ next_id = 1
    /\ clock = 0
    /\ locked = {}
    /\ sel = [c \in Callers |-> 0]
    /\ claim_count = [j \in JobIds |-> 0]
    /\ cancel_ok = {}
    /\ last_cancel = "none"
    /\ last_review = "none"
    /\ last_cleanup = NoCount
    /\ active_jobs = {}
    /\ worker_pc = [j \in JobIds |-> "none"]
    /\ worker_result = [j \in JobIds |-> NullResult]
    /\ worker_error = [j \in JobIds |-> NullStr]
    /\ stop_req = {}
    /\ delete_req = {}
    /\ review_req = [j \in {} |-> NullResult]

PipeIdle ==
    /\ pipe_pc = "idle"
    /\ response = NoRecord
    /\ extracted = NoRecord
    /\ validation = NoRecord
    /\ record = NoRecord
    /\ report = NoRecord
    /\ outputs = <<>>

Init ==
    /\ use_postgres \in BOOLEAN
    /\ max_concurrent \in 1..MaxCeiling
    /\ QueueInit
    /\ PipeIdle

(***************************************************************************)
(* job_queue.create_job, as called by the upload endpoints (NORMAL) and    *)
(* process_sample (HIGH); the store accepts any priority.  created_at is   *)
(* the clock at the insert.                                                *)
(***************************************************************************)
api_create_job(priority, limit) ==
    /\ store_up
    /\ next_id <= limit
    /\ jobs' = create_job(jobs, next_id, priority, clock)
    /\ next_id' = next_id + 1
    /\ UNCHANGED <<pipevars, use_postgres, max_concurrent, clock, locked, sel, histvars, workervars,
                   apivars>>

(***************************************************************************)
(* Time passes.  Two inserts with no tick between them get the same        *)
(* created_at (datetime.now has a finite resolution); a tick is only       *)
(* observable once the current reading has been stored.                    *)
(***************************************************************************)
tick ==
    /\ \E j \in DOMAIN jobs : jobs[j].created_at = clock
    /\ next_id <= MaxIds - 1
    /\ clock' = clock + 1
    /\ UNCHANGED <<pipevars, use_postgres, max_concurrent, jobs, next_id, locked, sel, histvars,
                   workervars, apivars>>

(***************************************************************************)
(* get_next_job, first half: the SELECT.  On PostgreSQL it locks the row   *)
(* it returns and skips rows locked by others; SQLite ignores FOR UPDATE.  *)
(* No Pending row: the call returns None and nothing changes.              *)
(***************************************************************************)
Selectable == IF use_postgres THEN JobIds \ locked ELSE JobIds
get_next_job_select(c) ==
    /\ store_up
    /\ sel[c] = 0
    /\ \E j \in FirstPending(jobs, Selectable) :
        /\ sel' = [sel EXCEPT ![c] = j]
        /\ locked' = IF use_postgres THEN locked \cup {j} ELSE locked
    /\ UNCHANGED <<pipevars, use_postgres, max_concurrent, jobs, next_id, clock, histvars,
                   workervars, apivars>>

(***************************************************************************)
(* get_next_job, second half: flush and commit, then return the job.  The  *)
(* UPDATE is keyed by id alone.  A row deleted since the SELECT makes the  *)
(* flush fail and the call raise.                                          *)
(***************************************************************************)
get_next_job_commit(c) ==
    /\ store_up
    /\ sel[c] # 0
    /\ sel[c] \in DOMAIN jobs
    /\ jobs' = claim_row(jobs, sel[c], clock)
    /\ claim_count' = [claim_count EXCEPT ![sel[c]] = @ + 1]
    /\ locked' = locked \ {sel[c]}
    /\ sel' = [sel EXCEPT ![c] = 0]
    /\ UNCHANGED <<pipevars, use_postgres, max_concurrent, next_id, clock, cancel_ok, last_cancel,
                   respvars, apivars>>

get_next_job_raise(c) ==
    /\ sel[c] # 0
    /\ sel[c] \notin DOMAIN jobs
    /\ sel' = [sel EXCEPT ![c] = 0]
    /\ locked' = locked \ {sel[c]}
    /\ UNCHANGED <<pipevars, use_postgres, max_concurrent, jobs, next_id, clock, histvars,
                   workervars, apivars>>

\* A caller of get_next_job other than the scheduler: no thread is started.
caller_select(c) == get_next_job_select(c)
caller_commit(c) == get_next_job_commit(c) /\ UNCHANGED workervars

(***************************************************************************)
(* app.py cancel_job -> job_queue.cancel_job: one conditional UPDATE.  On  *)
(* PostgreSQL it waits for a row lock held by a claim in flight.           *)
(***************************************************************************)
api_cancel_job(id) ==
    /\ ~(use_postgres /\ id \in locked)
    /\ jobs' = cancel_job(jobs, id)
    /\ last_cancel' = IF cancel_matches(jobs, id) THEN "true" ELSE "false"
    /\ cancel_ok' = IF cancel_matches(jobs, id) THEN cancel_ok \cup {id} ELSE cancel_ok
    /\ UNCHANGED <<pipevars, use_postgres, max_concurrent, next_id, clock, locked, sel, claim_count,
                   respvars, workervars, apivars>>

(***************************************************************************)
(* app.py delete_job / bulk_delete_jobs (per id): get_job, the status      *)
(* check, then job_queue.delete_job.                                       *)
(***************************************************************************)
api_delete_job_check(id) ==
    /\ id \in DOMAIN jobs
    /\ id \notin delete_req
    /\ InFlight < MaxInFlight
    /\ jobs[id].status \notin {PENDING, PROCESSING}
    /\ delete_req' = delete_req \cup {id}
    /\ UNCHANGED <<pipevars, dbvars, max_concurrent, sel, histvars, workervars, stop_req, review_req>>

api_delete_job_delete(id) ==
    /\ id \in delete_req
    /\ ~(use_postgres /\ id \in locked)
    /\ jobs' = delete_job(jobs, id)
    /\ delete_req' = delete_req \ {id}
    /\ UNCHANGED <<pipevars, use_postgres, max_concurrent, next_id, clock, locked, sel, histvars,
                   workervars, stop_req, review_req>>

(***************************************************************************)
(* app.py job_processor: the capacity check and get_next_job's SELECT.     *)
(* Only this loop adds to active_jobs, so a check that found room still    *)
(* holds when the SELECT runs.                                             *)
(***************************************************************************)
\* the capacity test off by one
HasCapacity_off_by_one(active, ceiling) == ~(Cardinality(active) > ceiling)
HasCapacity(active, ceiling) == ~(Cardinality(active) >= ceiling)
job_processor_select ==
    /\ sched_pc = "run"
    /\ HasCapacity(active_jobs, max_concurrent)
    /\ get_next_job_select(1)

(***************************************************************************)
(* job_processor: get_next_job returns the claimed job; it is entered in   *)
(* active_jobs and its process_job thread is started.                      *)
(***************************************************************************)
job_processor_dispatch ==
    /\ sched_pc = "run"
    /\ get_next_job_commit(1)
    /\ active_jobs' = active_jobs \cup {sel[1]}
    /\ worker_pc' = [worker_pc EXCEPT ![sel[1]] = "acquire"]
    /\ UNCHANGED <<worker_result, worker_error>>

\* get_next_job raised: logged, sleep, next iteration.
job_processor_error == get_next_job_raise(1)

(***************************************************************************)
(* process_job(job).  A store call on a row that no longer exists raises   *)
(* ValueError, which the thread's except clause handles like any other.    *)
(***************************************************************************)
NotFound == "Job not found"
OperationalError == "OperationalError"
FileError == "Local file not found"

\* One call job_queue.update_job_status(...) of the thread of job id, moving
\* it to pc ok on success and to the except clause when the call raises: the
\* store does not answer, or the row is gone.
WorkerUpdate(id, status, progress, result, ok) ==
    IF store_up /\ id \in DOMAIN jobs
    THEN /\ jobs' = update_job_status(jobs, id, status, progress, result, NullStr, clock)
         /\ worker_pc' = [worker_pc EXCEPT ![id] = ok]
         /\ UNCHANGED worker_error
    ELSE /\ worker_pc' = [worker_pc EXCEPT ![id] = "except"]
         /\ worker_error' = [worker_error EXCEPT ![id] =
                                IF store_up THEN NotFound ELSE OperationalError]
         /\ UNCHANGED jobs

\* lines 205-250: the file cannot be acquired
process_job_no_file(id) ==
    /\ worker_pc[id] = "acquire"
    /\ worker_pc' = [worker_pc EXCEPT ![id] = "except"]
    /\ worker_error' = [worker_error EXCEPT ![id] = FileError]
    /\ UNCHANGED <<pipevars, dbvars, max_concurrent, sel, histvars, active_jobs, worker_result, apivars>>

\* lines 205-255: file acquired, update_job_status(PROCESSING, progress=10)
process_job_start(id) ==
    /\ worker_pc[id] = "acquire"
    /\ WorkerUpdate(id, PROCESSING, 10, NullResult, "pipeline")
    /\ UNCHANGED <<pipevars, use_postgres, max_concurrent, next_id, clock, locked, sel, histvars,
                   active_jobs, worker_result, apivars>>

\* lines 258-263: result = pipeline.process(file_path), then
\* update_job_status(PROCESSING, progress=90)
process_job_pipeline(id) ==
    /\ worker_pc[id] = "pipeline"
    /\ \E r \in ProcessResults : worker_result' = [worker_result EXCEPT ![id] = r]
    /\ WorkerUpdate(id, PROCESSING, 90, NullResult, "complete")
    /\ UNCHANGED <<pipevars, use_postgres, max_concurrent, next_id, clock, locked, sel, histvars,
                   active_jobs, apivars>>

\* lines 304-306: update_job_status(COMPLETED, progress=100, result=result)
process_job_complete(id) ==
    /\ worker_pc[id] = "complete"
    /\ WorkerUpdate(id, COMPLETED, 100, worker_result[id], "finally")
    /\ UNCHANGED <<pipevars, use_postgres, max_concurrent, next_id, clock, locked, sel, histvars,
                   active_jobs, worker_result, apivars>>

\* an except clause that only logs
process_job_except_only_logs(id) ==
    /\ worker_pc[id] = "except"
    /\ worker_pc' = [worker_pc EXCEPT ![id] = "finally"]
    /\ UNCHANGED <<pipevars, dbvars, max_concurrent, sel, histvars, active_jobs, worker_result,
                   worker_error, apivars>>

\* lines 313-315: update_job_status(FAILED, error=str(e)); if that raises too
\* the exception leaves the thread through the finally clause.
process_job_except(id) ==
    /\ worker_pc[id] = "except"
    /\ jobs' = IF store_up /\ id \in DOMAIN jobs
               THEN update_job_status(jobs, id, FAILED, NoProgress, NullResult,
                                      worker_error[id], clock)
               ELSE jobs
    /\ worker_pc' = [worker_pc EXCEPT ![id] = "finally"]
    /\ UNCHANGED <<pipevars, use_postgres, max_concurrent, next_id, clock, locked, sel, histvars,
                   active_jobs, worker_result, worker_error, apivars>>

\* a thread that ends without the del
process_job_finally_keeps_slot(id) ==
    /\ worker_pc[id] = "finally"
    /\ worker_pc' = [worker_pc EXCEPT ![id] = "done"]
    /\ worker_result' = [worker_result EXCEPT ![id] = NullResult]
    /\ worker_error' = [worker_error EXCEPT ![id] = NullStr]
    /\ UNCHANGED <<pipevars, dbvars, max_concurrent, sel, histvars, apivars, active_jobs>>

\* lines 316-326: del active_jobs[job.id]
process_job_finally(id) ==
    /\ worker_pc[id] = "finally"
    /\ active_jobs' = active_jobs \ {id}
    /\ worker_pc' = [worker_pc EXCEPT ![id] = "done"]
    /\ worker_result' = [worker_result EXCEPT ![id] = NullResult]
    /\ worker_error' = [worker_error EXCEPT ![id] = NullStr]
    /\ UNCHANGED <<pipevars, dbvars, max_concurrent, sel, histvars, apivars>>

(***************************************************************************)
(* app.py stop_job: get_job and the status check, then                     *)
(* update_job_status(CANCELLED, error="Job stopped by user").               *)
(***************************************************************************)
StoppedByUser == "Job stopped by user"
StopAllowed(status) == status \in {PROCESSING}
api_stop_job_check(id) ==
    /\ id \in DOMAIN jobs
    /\ id \notin stop_req
    /\ InFlight < MaxInFlight
    /\ StopAllowed(jobs[id].status)
    /\ stop_req' = stop_req \cup {id}
    /\ UNCHANGED <<pipevars, dbvars, max_concurrent, sel, histvars, workervars, delete_req, review_req>>

api_stop_job_update(id) ==
    /\ id \in stop_req
    /\ jobs' = IF id \in DOMAIN jobs
               THEN update_job_status(jobs, id, CANCELLED, NoProgress, NullResult,
                                      StoppedByUser, clock)
               ELSE jobs
    /\ stop_req' = stop_req \ {id}
    /\ UNCHANGED <<pipevars, use_postgres, max_concurrent, next_id, clock, locked, sel, histvars,
                   workervars, delete_req, review_req>>

(***************************************************************************)
(* app.py complete_review / bulk_complete_review (per id): get_job and the *)
(* requires_human_review check, then update_job_status(COMPLETED,          *)
(* result=updated_result) with the result read by get_job.                 *)
(***************************************************************************)
\* the review check without its requires_human_review condition
NeedsReview_any_result(result) == result.status # "NULL"
NeedsReview(result) == result.status # "NULL" /\ result.validation.requires_human_review
\* the review flag flipped instead of set
Reviewed_flips_flag(result, now) ==
    [result EXCEPT !.validation.review_completed = ~@,
                   !.validation.review_completed_at = now,
                   !.validation.validation_result = "REVIEWED"]
Reviewed(result, now) ==
    [result EXCEPT !.validation.review_completed = TRUE,
                   !.validation.review_completed_at = now,
                   !.validation.validation_result = "REVIEWED"]
api_complete_review_check(id) ==
    /\ id \in DOMAIN jobs
    /\ id \notin DOMAIN review_req
    /\ InFlight < MaxInFlight
    /\ NeedsReview(jobs[id].result)
    /\ review_req' = [j \in DOMAIN review_req \cup {id} |->
                        IF j = id THEN jobs[id].result ELSE review_req[j]]
    /\ UNCHANGED <<pipevars, dbvars, max_concurrent, sel, histvars, workervars, stop_req, delete_req>>

\* get_job returned nothing (404) or the result does not ask for a review (400)
api_complete_review_reject(id) ==
    /\ ~(id \in DOMAIN jobs /\ NeedsReview(jobs[id].result))
    /\ last_review' = "error"
    /\ UNCHANGED <<pipevars, dbvars, max_concurrent, sel, claim_count, cancel_ok, last_cancel,
                   last_cleanup, workervars, apivars>>

\* the row is rewritten and the answer is success; update_job_status raising
\* (the row is gone) is answered with an error (500)
api_complete_review_update(id) ==
    /\ id \in DOMAIN review_req
    /\ jobs' = IF id \in DOMAIN jobs
               THEN update_job_status(jobs, id, COMPLETED, NoProgress,
                                      Reviewed(review_req[id], clock), NullStr, clock)
               ELSE jobs
    /\ last_review' = IF id \in DOMAIN jobs THEN "success" ELSE "error"
    /\ review_req' = [j \in DOMAIN review_req \ {id} |-> review_req[j]]
    /\ UNCHANGED <<pipevars, use_postgres, max_concurrent, next_id, clock, locked, sel, claim_count,
                   cancel_ok, last_cancel, last_cleanup, workervars, stop_req, delete_req>>

(***************************************************************************)
(* app.py cleanup_queue -> job_queue.cleanup_old_jobs(days): one DELETE    *)
(* with cutoff = now - days; the number of rows removed is returned.       *)
(***************************************************************************)
api_cleanup_queue(days) ==
    /\ jobs' = cleanup_old_jobs(jobs, clock - days)
    /\ last_cleanup' = Cardinality(cleanup_matches(jobs, clock - days))
    /\ UNCHANGED <<pipevars, use_postgres, max_concurrent, next_id, clock, locked, sel, claim_count,
                   cancel_ok, last_cancel, last_review, workervars, apivars>>

(***************************************************************************)
(* The clock advances on its own.                                          *)
(***************************************************************************)
time_passes ==
    /\ clock < MaxClock
    /\ clock' = clock + 1
    /\ UNCHANGED <<pipevars, use_postgres, max_concurrent, jobs, next_id, locked, sel, histvars,
                   workervars, apivars>>

(***************************************************************************)
(* job_queue.update_job_status as a client of the store calls it: the      *)
(* argument lists are those app.py passes (process_job, stop_job).         *)
(***************************************************************************)
UpdateCalls ==
    {<<PROCESSING, 90, NullResult, NullStr>>,
     <<COMPLETED, 100, SuccessResult(Verdict("INVALID", TRUE)), NullStr>>,
     <<FAILED, NoProgress, NullResult, PipelineError>>,
     <<CANCELLED, NoProgress, NullResult, StoppedByUser>>}
db_update_job_status(id, call) ==
    /\ id \in DOMAIN jobs
    /\ jobs' = update_job_status(jobs, id, call[1], call[2], call[3], call[4], clock)
    /\ UNCHANGED <<pipevars, use_postgres, max_concurrent, next_id, clock, locked, sel, histvars,
                   workervars, apivars>>

(***************************************************************************)
(* The application: one job_processor loop, its process_job threads and    *)
(* the job endpoints.  The clock stands still here: every timestamp is one *)
(* reading, and rows created alike in priority tie on created_at.          *)
(***************************************************************************)
Next ==
    \/ \E p \in {NORMAL, HIGH} : api_create_job(p, MaxJobs)
    \/ job_processor_select
    \/ job_processor_dispatch
    \/ job_processor_error
    \/ \E id \in DOMAIN jobs \cup active_jobs : process_job_no_file(id)
    \/ \E id \in DOMAIN jobs \cup active_jobs : process_job_start(id)
    \/ \E id \in DOMAIN jobs \cup active_jobs : process_job_pipeline(id)
    \/ \E id \in DOMAIN jobs \cup active_jobs : process_job_complete(id)
    \/ \E id \in DOMAIN jobs \cup active_jobs : process_job_except(id)
    \/ \E id \in DOMAIN jobs \cup active_jobs : process_job_finally(id)
    \/ \E id \in 1..next_id : api_cancel_job(id)
    \/ \E id \in 1..next_id : api_stop_job_check(id)
    \/ \E id \in 1..next_id : api_stop_job_update(id)
    \/ \E id \in 1..next_id : api_delete_job_check(id)
    \/ \E id \in 1..next_id : api_delete_job_delete(id)
    \/ \E id \in 1..next_id : api_complete_review_check(id)
    \/ \E id \in 1..next_id : api_complete_review_reject(id)
    \/ \E id \in 1..next_id : api_complete_review_update(id)

Spec == Init /\ [][Next]_vars

(***************************************************************************)
(* The store under concurrent callers of get_next_job (several scheduler   *)
(* processes on one database) while jobs are being created.                *)
(***************************************************************************)
NextClaim ==
    \/ tick
    \/ \E p \in JobPriority : api_create_job(p, MaxQueued)
    \/ \E c \in Callers : caller_select(c)
    \/ \E c \in Callers : caller_commit(c)

SpecClaim == Init /\ [][NextClaim]_vars

(***************************************************************************)
(* The store with the clock running, under one client that claims jobs,    *)
(* ends them and cancels them, and the cleanup endpoint.                   *)
(***************************************************************************)
NextStore ==
    \/ time_passes
    \/ api_create_job(NORMAL, MaxStored)
    \/ caller_select(1)
    \/ caller_commit(1)
    \/ \E id \in DOMAIN jobs, call \in {c \in UpdateCalls : c[1] \in {COMPLETED, CANCELLED}} :
            db_update_job_status(id, call)
    \/ \E id \in 1..next_id : api_cancel_job(id)
    \/ \E days \in 0..MaxDays : api_cleanup_queue(days)

SpecStore == Init /\ [][NextStore]_vars

(***************************************************************************)
(* One job with the clock running, under one client that claims and        *)
(* updates it, and the review endpoints.                                   *)
(***************************************************************************)
NextReview ==
    \/ time_passes
    \/ api_create_job(NORMAL, MaxReviewed)
    \/ caller_select(1)
    \/ caller_commit(1)
    \/ \E id \in DOMAIN jobs, call \in UpdateCalls : db_update_job_status(id, call)
    \/ \E id \in 1..next_id : api_cancel_job(id)
    \/ \E id \in 1..next_id : api_complete_review_check(id)
    \/ \E id \in 1..next_id : api_complete_review_reject(id)
    \/ \E id \in 1..next_id : api_complete_review_update(id)

SpecReview == Init /\ [][NextReview]_vars

(***************************************************************************)
(* One run of the pipeline on a provider response, the store left alone.   *)
(***************************************************************************)
InitPipe ==
    /\ use_postgres = FALSE
    /\ max_concurrent = 1
    /\ QueueInit
    /\ pipe_pc = "response"
    /\ \E action \in GuardrailActions, findings \in FindingLists :
        \/ \E es \in EntryLists :
             \E ec \in ReportedCounts(Cardinality(EmployeesOf(es))),
                tc \in ReportedCounts(Len(es)), td \in ReportedCounts(Len(es)),
                tw \in ReportedWages(es) :
                 \E avg \in ReportedAverages(es, tw), outcome \in Extractable :
                     response = Response(outcome, Payload(es, ec, tc, td, tw, avg),
                                         action, findings)
        \/ \E outcome \in Outcomes \ (Extractable \cup {"raised"}) :
             response = Response(outcome, NoRecord, action, findings)
        \/ /\ action = "NONE"
           /\ findings = <<>>
           /\ response = Response("raised", NoRecord, action, findings)
    /\ extracted = NoRecord
    /\ validation = NoRecord
    /\ record = NoRecord
    /\ report = NoRecord
    /\ outputs = <<>>

\* process: extracted_data = self.step2_llm_extraction(markdown)
process_step2 ==
    /\ pipe_pc = "response"
    /\ extracted' = step2_llm_extraction(response)
    /\ pipe_pc' = "extracted"
    /\ UNCHANGED <<queuevars, response, validation, enginevars, sidevars>>

\* process: validation = self.step3_automated_reasoning(extracted_data)
process_step3 ==
    /\ pipe_pc = "extracted"
    /\ validation' = step3_automated_reasoning(extracted)
    /\ pipe_pc' = "validated"
    /\ UNCHANGED <<queuevars, response, extracted, enginevars, sidevars>>

NextPipe == process_step2 \/ process_step3

SpecPipe == InitPipe /\ [][NextPipe]_vars

(***************************************************************************)
(* The consistency engine and the post-processor on their own, applied to  *)
(* a record as the provider may send it.                                   *)
(***************************************************************************)
MaxPasses == 2

InitEngine ==
    /\ use_postgres = FALSE
    /\ max_concurrent = 1
    /\ QueueInit
    /\ pipe_pc = "idle"
    /\ response = NoRecord
    /\ extracted = NoRecord
    /\ validation = NoRecord
    /\ \E es \in EntryLists :
        \E ec \in ReportedCounts(Cardinality(EmployeesOf(es))),
           tc \in ReportedCounts(Len(es)), td \in ReportedCounts(Len(es)),
           tw \in ReportedWages(es) :
            \E avg \in ReportedAverages(es, tw) :
                record = Payload(es, ec, tc, td, tw, avg)
    /\ report = NoRecord
    /\ outputs = <<>>

\* the engine's five answers and its error list, on the record as it came
engine_check ==
    /\ report = NoRecord
    /\ report' = [is_consistent |-> _is_mathematically_consistent(record),
                  sum_correct |-> _check_sum_calculation(record),
                  average_correct |-> _check_average_calculation(record),
                  count_correct |-> _check_count_consistency(record),
                  data_integrity |-> _check_data_integrity(record),
                  errors |-> _get_mathematical_errors(record)]
    /\ UNCHANGED <<queuevars, pipe_pc, response, extracted, validation, record, outputs, sidevars>>

\* _post_process_extracted_data on the record, then on what it returned
post_process ==
    /\ Len(outputs) < MaxPasses
    /\ outputs' = Append(outputs,
                         _post_process_extracted_data(
                             IF outputs = <<>> THEN record ELSE outputs[Len(outputs)]))
    /\ UNCHANGED <<queuevars, pipe_pc, response, extracted, validation, record, report, sidevars>>

NextEngine == engine_check \/ post_process

SpecEngine == InitEngine /\ [][NextEngine]_vars

(***************************************************************************)
(* The two views of the review queue.  get_queue_stats counts over every   *)
(* Completed row; the listing endpoint filters what get_all_jobs returns,  *)
(* which is cut at its default limit.  Jobs run to Completed one after the *)
(* other here, each stored at its own clock reading, and reviews are       *)
(* completed through the endpoint.                                         *)
(***************************************************************************)
DefaultLimit == 50
MaxArchived == 51
MaxAwaiting == 1

\* get_all_jobs(limit, status_filter): the ids of the rows returned, the newest
\* limit rows of the filtered ones (created_at differs from row to row here)
get_all_jobs(tbl, limit, status_filter) ==
    LET filtered == {j \in DOMAIN tbl : tbl[j].status \in status_filter}
    IN  {j \in filtered :
            Cardinality({k \in filtered : tbl[k].created_at > tbl[j].created_at}) < limit}

\* the filter both views apply to a row's result
AwaitsReview(row) ==
    /\ NeedsReview(row.result)
    /\ ~row.result.validation.review_completed

\* get_queue_stats()["review_queue"]
get_queue_stats_review_queue(tbl) ==
    Cardinality({j \in DOMAIN tbl : tbl[j].status = COMPLETED /\ AwaitsReview(tbl[j])})

\* get_review_queue: the job ids of its review items
get_review_queue(tbl) ==
    {j \in get_all_jobs(tbl, DefaultLimit, {COMPLETED}) : AwaitsReview(tbl[j])}

InitIdle ==
    /\ use_postgres = FALSE
    /\ max_concurrent = 1
    /\ QueueInit
    /\ PipeIdle

\* one job from upload to update_job_status(COMPLETED, progress=100, result)
job_runs_to_completed(v) ==
    /\ next_id <= MaxArchived
    /\ v.requires_human_review =>
        Cardinality({j \in DOMAIN jobs : NeedsReview(jobs[j].result)}) < MaxAwaiting
    /\ jobs' = update_job_status(
                    claim_row(create_job(jobs, next_id, NORMAL, clock), next_id, clock),
                    next_id, COMPLETED, 100, SuccessResult(v), NullStr, clock)
    /\ next_id' = next_id + 1
    /\ clock' = clock + 1
    /\ UNCHANGED <<pipevars, use_postgres, max_concurrent, locked, sel, histvars, workervars,
                   apivars>>

NextViews ==
    \/ \E v \in {Verdict("VALID", FALSE), Verdict("INVALID", TRUE)} : job_runs_to_completed(v)
    \/ \E id \in DOMAIN jobs : api_complete_review_check(id)
    \/ \E id \in DOMAIN jobs : api_complete_review_update(id)

SpecViews == InitIdle /\ [][NextViews]_vars

(***************************************************************************)
(* TimecardPipeline._call_bedrock_with_retry: a for loop over              *)
(* range(max_retries) around bedrock.converse.  A call answers, or raises  *)
(* a ClientError with an error code, or raises something that is not a     *)
(* ClientError (a botocore read timeout) and so passes the except clause.  *)
(* Both the call and the sleep before a retry return.                      *)
(***************************************************************************)
max_retries == 5
RateLimitCodes == {"ThrottlingException", "TooManyRequestsException"}
ClientErrorCodes == RateLimitCodes \cup {"ValidationException", "AccessDeniedException"}
ConverseOutcomes == {"ok", "ReadTimeoutError"} \cup ClientErrorCodes
RunOver == {"returned", "raised"}

\* the retry test without the error-code test
ShouldRetry_any_code(code, n) == n < max_retries - 1
\* lines 1392-1393: sleep and continue, or raise
ShouldRetry(code, n) == code \in RateLimitCodes /\ n < max_retries - 1

\* a call of _call_bedrock_with_retry enters the loop
retry_begin ==
    /\ retry_pc \in {"idle"} \cup RunOver
    /\ retry_pc' = "call"
    /\ attempt' = 0
    /\ converse_log' = <<>>
    /\ retry_raised' = NullStr
    /\ UNCHANGED <<queuevars, pipe_pc, response, extracted, validation, enginevars, lockvars,
                   faultvars>>

\* lines 1387-1405: one bedrock.converse call and what the loop does with it
retry_converse(outcome) ==
    /\ retry_pc = "call"
    /\ attempt < max_retries
    /\ converse_log' = Append(converse_log, outcome)
    /\ IF outcome = "ok"
       THEN retry_pc' = "returned" /\ UNCHANGED retry_raised
       ELSE IF outcome \in ClientErrorCodes /\ ShouldRetry(outcome, attempt)
            THEN retry_pc' = "sleep" /\ UNCHANGED retry_raised
            ELSE retry_pc' = "raised" /\ retry_raised' = outcome
    /\ UNCHANGED <<queuevars, pipe_pc, response, extracted, validation, enginevars, attempt,
                   lockvars, faultvars>>

\* lines 1394-1399: time.sleep(delay); continue
retry_sleep ==
    /\ retry_pc = "sleep"
    /\ attempt' = attempt + 1
    /\ retry_pc' = "call"
    /\ UNCHANGED <<queuevars, pipe_pc, response, extracted, validation, enginevars, converse_log,
                   retry_raised, lockvars, faultvars>>

NextRetry ==
    \/ retry_begin
    \/ \E outcome \in ConverseOutcomes : retry_converse(outcome)
    \/ retry_sleep

SpecRetry ==
    /\ InitIdle
    /\ [][NextRetry]_vars
    /\ WF_vars((\E outcome \in ConverseOutcomes : retry_converse(outcome)) \/ retry_sleep)

(***************************************************************************)
(* AutomatedReasoningProvisioner.ensure_provisioned under its lock, the    *)
(* setting automated_reasoning_provisioning_lock.  _acquire_distributed_   *)
(* lock builds its lock value, reads the setting with config_manager.get,  *)
(* and writes the value with config_manager.set unless the one it read has *)
(* not expired: two store calls, with other callers free to run between    *)
(* them.  The callers are the start-up thread, the status and retry        *)
(* endpoints and the pipeline's constructor.                               *)
(***************************************************************************)
LockTimeout == 30
MaxLockClock == 31

\* line 939: existing_lock.get('expires_at', 0) > time.time()
Unexpired(existing_lock, now) ==
    /\ existing_lock # NoLock
    /\ existing_lock.expires_at > now

\* lines 933-940: lock_value is built, then the setting is read
acquire_lock_read(c) ==
    /\ prov_pc[c] = "idle"
    /\ lock_seen' = [lock_seen EXCEPT ![c] =
                        [existing_lock |-> lock_setting,
                         lock_value |-> [locked_by |-> c,
                                         expires_at |-> lock_now + LockTimeout]]]
    /\ prov_pc' = [prov_pc EXCEPT ![c] = "acquiring"]
    /\ UNCHANGED <<queuevars, pipe_pc, response, extracted, validation, enginevars, retryvars,
                   faultvars, lock_setting, lock_now>>

\* lines 941-943 and 586-590: the lock read is held; the caller returns the
\* current status without entering the section
acquire_lock_refused(c) ==
    /\ prov_pc[c] = "acquiring"
    /\ Unexpired(lock_seen[c].existing_lock, lock_now)
    /\ prov_pc' = [prov_pc EXCEPT ![c] = "idle"]
    /\ lock_seen' = [lock_seen EXCEPT ![c] = NoLock]
    /\ UNCHANGED <<queuevars, pipe_pc, response, extracted, validation, enginevars, retryvars,
                   faultvars, lock_setting, lock_now>>

\* lines 945-948 and 592: the lock value is written; the caller enters the section
acquire_lock_write(c) ==
    /\ prov_pc[c] = "acquiring"
    /\ ~Unexpired(lock_seen[c].existing_lock, lock_now)
    /\ lock_setting' = lock_seen[c].lock_value
    /\ prov_pc' = [prov_pc EXCEPT ![c] = "section"]
    /\ lock_seen' = [lock_seen EXCEPT ![c] = NoLock]
    /\ UNCHANGED <<queuevars, pipe_pc, response, extracted, validation, enginevars, retryvars,
                   faultvars, lock_now>>

\* lines 690-691 and 956-963: the section ends; the finally clause sets the
\* setting to None
release_lock(c) ==
    /\ prov_pc[c] = "section"
    /\ lock_setting' = NoLock
    /\ prov_pc' = [prov_pc EXCEPT ![c] = "idle"]
    /\ UNCHANGED <<queuevars, pipe_pc, response, extracted, validation, enginevars, retryvars,
                   faultvars, lock_seen, lock_now>>

lock_time_passes ==
    /\ \E d \in {1, LockTimeout} :
        /\ lock_now + d <= MaxLockClock
        /\ lock_now' = lock_now + d
    /\ UNCHANGED <<queuevars, pipe_pc, response, extracted, validation, enginevars, retryvars,
                   faultvars, lock_setting, lock_seen, prov_pc>>

NextLock ==
    \/ \E c \in ProvCallers : acquire_lock_read(c)
    \/ \E c \in ProvCallers : acquire_lock_refused(c)
    \/ \E c \in ProvCallers : acquire_lock_write(c)
    \/ \E c \in ProvCallers : release_lock(c)
    \/ lock_time_passes

SpecLock == InitIdle /\ [][NextLock]_vars

(***************************************************************************)
(* The scheduler and its threads as they run on: the job_processor loop    *)
(* never returns and every process_job thread runs to its end (a pipeline  *)
(* run terminates), so each of them takes its next step when it has one.   *)
(* Users create a bounded number of jobs and may cancel and stop them.     *)
(***************************************************************************)
SchedulerStep == job_processor_select \/ job_processor_dispatch
WorkerStep(id) ==
    \/ process_job_no_file(id)
    \/ process_job_start(id)
    \/ process_job_pipeline(id)
    \/ process_job_complete(id)
    \/ process_job_except(id)
    \/ process_job_finally(id)

NextLive ==
    \/ \E p \in {NORMAL, HIGH} : api_create_job(p, MaxJobs)
    \/ job_processor_select
    \/ job_processor_dispatch
    \/ \E id \in DOMAIN jobs \cup active_jobs : process_job_no_file(id)
    \/ \E id \in DOMAIN jobs \cup active_jobs : process_job_start(id)
    \/ \E id \in DOMAIN jobs \cup active_jobs : process_job_pipeline(id)
    \/ \E id \in DOMAIN jobs \cup active_jobs : process_job_complete(id)
    \/ \E id \in DOMAIN jobs \cup active_jobs : process_job_except(id)
    \/ \E id \in DOMAIN jobs \cup active_jobs : process_job_finally(id)
    \/ \E id \in 1..next_id : api_cancel_job(id)
    \/ \E id \in 1..next_id : api_stop_job_check(id)
    \/ \E id \in 1..next_id : api_stop_job_update(id)

SpecLive ==
    /\ InitIdle
    /\ [][NextLive]_vars
    /\ WF_vars(SchedulerStep)
    /\ \A id \in JobIds : WF_vars(WorkerStep(id))

(***************************************************************************)
(* The same under store outages.  While the store is away every store call *)
(* raises: get_next_job in the scheduler loop, which lands in the loop's   *)
(* except clause, sleeps and goes round again, and update_job_status in    *)
(* the threads.  An outage ends, and there are finitely many of them.      *)
(***************************************************************************)
MaxOutages == 1

store_fails ==
    /\ store_up
    /\ outages < MaxOutages
    /\ store_up' = FALSE
    /\ outages' = outages + 1
    /\ UNCHANGED <<queuevars, pipe_pc, response, extracted, validation, enginevars, retryvars,
                   lockvars, sched_pc>>

store_recovers ==
    /\ ~store_up
    /\ store_up' = TRUE
    /\ UNCHANGED <<queuevars, pipe_pc, response, extracted, validation, enginevars, retryvars,
                   lockvars, outages, sched_pc>>

\* lines 191 and 331-333: get_next_job raises, in its SELECT or in its commit;
\* except Exception: logger.error
job_processor_store_error ==
    /\ sched_pc = "run"
    /\ ~store_up
    /\ HasCapacity(active_jobs, max_concurrent)
    /\ sel' = [sel EXCEPT ![1] = 0]
    /\ locked' = locked \ {sel[1]}
    /\ sched_pc' = "backoff"
    /\ UNCHANGED <<use_postgres, jobs, next_id, clock, max_concurrent, histvars, workervars,
                   apivars, pipe_pc, response, extracted, validation, enginevars, retryvars,
                   lockvars, store_up, outages>>

\* a loop that the exception ends
job_processor_stops ==
    /\ sched_pc = "backoff"
    /\ sched_pc' = "stopped"
    /\ UNCHANGED <<queuevars, pipe_pc, response, extracted, validation, enginevars, retryvars,
                   lockvars, store_up, outages>>

\* line 333: time.sleep(5) returns; while True
job_processor_resume ==
    /\ sched_pc = "backoff"
    /\ sched_pc' = "run"
    /\ UNCHANGED <<queuevars, pipe_pc, response, extracted, validation, enginevars, retryvars,
                   lockvars, store_up, outages>>

NextFaulty ==
    \/ \E p \in {NORMAL, HIGH} : api_create_job(p, MaxJobs)
    \/ job_processor_select
    \/ job_processor_dispatch
    \/ job_processor_store_error
    \/ job_processor_resume
    \/ \E id \in DOMAIN jobs \cup active_jobs : process_job_no_file(id)
    \/ \E id \in DOMAIN jobs \cup active_jobs : process_job_start(id)
    \/ \E id \in DOMAIN jobs \cup active_jobs : process_job_pipeline(id)
    \/ \E id \in DOMAIN jobs \cup active_jobs : process_job_complete(id)
    \/ \E id \in DOMAIN jobs \cup active_jobs : process_job_except(id)
    \/ \E id \in DOMAIN jobs \cup active_jobs : process_job_finally(id)
    \/ store_fails
    \/ store_recovers

SpecFaulty ==
    /\ InitIdle
    /\ [][NextFaulty]_vars
    /\ WF_vars(SchedulerStep \/ job_processor_store_error \/ job_processor_resume)
    /\ \A id \in JobIds : WF_vars(WorkerStep(id))
    /\ WF_vars(store_recovers)

(***************************************************************************)
(*                              Properties                                 *)
(***************************************************************************)
StatusIs(st) == {j \in DOMAIN jobs : jobs[j].status = st}

\* C1: claim exclusivity. No job id is returned by get_next_job more than once,
\* whatever the interleaving of the callers' SELECT and commit steps.
ClaimExclusivity == \A j \in JobIds : claim_count[j] <= 1

\* C2: priority ordering. The row a get_next_job call selects is Pending, and no
\* other Pending row (one locked by a concurrent claim in flight aside) has a
\* higher priority, or the same priority and an earlier created_at.
PriorityOrdering ==
    [][\A c \in Callers :
        (sel[c] = 0 /\ sel'[c] # 0) =>
            /\ sel'[c] \in StatusIs(PENDING)
            /\ \A k \in StatusIs(PENDING) \ locked :
                \/ jobs[sel'[c]].priority > jobs[k].priority
                \/ /\ jobs[sel'[c]].priority = jobs[k].priority
                   /\ jobs[sel'[c]].created_at <= jobs[k].created_at]_vars

\* C2 witness: jobs inserted in the order Normal, High, Low, Urgent, all before
\* the first claim; two claims later Urgent and High are taken, Normal and Low wait.
PriorityOrderingWitness ==
    /\ DOMAIN jobs = 1..4
    /\ <<jobs[1].priority, jobs[2].priority, jobs[3].priority, jobs[4].priority>>
         = <<NORMAL, HIGH, LOW, URGENT>>
    /\ jobs[1].created_at < jobs[2].created_at
    /\ jobs[2].created_at < jobs[3].created_at
    /\ jobs[3].created_at < jobs[4].created_at
    /\ StatusIs(PROCESSING) = {4, 2}
    /\ StatusIs(PENDING) = {1, 3}
    /\ \A c \in Callers : sel[c] = 0

\* C3: concurrency ceiling. The number of rows in status Processing never
\* exceeds max_concurrent.
ConcurrencyCeiling == Cardinality(StatusIs(PROCESSING)) <= max_concurrent

\* C3 witness: the scheduler is at its ceiling while a Pending job waits.
ConcurrencyCeilingWitness ==
    /\ Cardinality(StatusIs(PROCESSING)) = max_concurrent
    /\ Cardinality(active_jobs) = max_concurrent
    /\ StatusIs(PENDING) # {}

\* C4: terminal immutability. No step changes a terminal status into a
\* different terminal status.
TerminalImmutability ==
    [][\A j \in DOMAIN jobs \cap DOMAIN jobs' :
        (jobs[j].status \in TerminalStatus /\ jobs'[j].status \in TerminalStatus)
            => jobs'[j].status = jobs[j].status]_vars

\* C5: a job in a terminal status never returns to Pending or Processing.
TerminalNeverReopens ==
    [][\A j \in DOMAIN jobs \cap DOMAIN jobs' :
        jobs[j].status \in TerminalStatus
            => jobs'[j].status \notin {PENDING, PROCESSING}]_vars

\* C6: a job for which cancel_job returned True is never handed out by
\* get_next_job.
CancelledNeverClaimed == \A j \in cancel_ok : claim_count[j] = 0

\* C7: cancellation window. cancel_job on an id that is not a Pending row
\* returns False and leaves the table unchanged.
CancelWindow ==
    [][\A id \in JobIds :
        (api_cancel_job(id) /\ ~(id \in DOMAIN jobs /\ jobs[id].status = PENDING))
            => (last_cancel' = "false" /\ jobs' = jobs)]_vars

\* C7 witness: cancel_job has returned False while the store holds rows, none
\* of them Pending, one of them Processing and one terminal.
CancelWindowWitness ==
    /\ last_cancel = "false"
    /\ StatusIs(PENDING) = {}
    /\ StatusIs(PROCESSING) # {}
    /\ \E j \in DOMAIN jobs : jobs[j].status \in TerminalStatus

\* C8: when the pipeline raised while a job was processed, the job is not
\* marked Completed: once its thread is past the status write, the job is
\* Failed with the exception's message.
PipelineFailureFailsJob ==
    /\ \A j \in DOMAIN jobs :
        jobs[j].status = COMPLETED => jobs[j].result.status # "error"
    /\ \A j \in DOMAIN jobs :
        (worker_pc[j] = "finally" /\ worker_result[j].status = "error")
            => (jobs[j].status = FAILED /\ jobs[j].error = worker_result[j].error)

\* C9: with no external findings, a reported total_wage that differs from the
\* sum of the entries' rates by more than the tolerance yields INVALID, a
\* sum-mismatch issue and requires_human_review.
SumMismatchDetected ==
    (/\ pipe_pc = "validated"
     /\ response.outcome \in Extractable
     /\ response.findings = <<>>
     /\ Abs(response.payload.total_wage - SumRates(response.payload.daily_entries))
            > Tolerance)
    => /\ validation.validation_result = "INVALID"
       /\ \E i \in DOMAIN validation.validation_issues :
            validation.validation_issues[i].kind = "Sum calculation error"
       /\ validation.requires_human_review

\* C10: after post-processing the record still carries each provider-reported
\* aggregate, in a field other than the one holding the recomputed value.
NumericFields ==
    {"employee_count", "total_timecards", "total_days", "unique_days", "total_wage",
     "average_daily_rate", "validation_confidence"}
Carries(d, field, value) == \E f \in NumericFields \ {field} : d[f] = value
OriginalsPreserved ==
    (/\ pipe_pc = "extracted"
     /\ response.outcome \in Extractable
     /\ response.payload.daily_entries # <<>>)
    => /\ Carries(extracted, "total_wage", response.payload.total_wage)
       /\ Carries(extracted, "average_daily_rate", response.payload.average_daily_rate)
       /\ Carries(extracted, "employee_count", response.payload.employee_count)
       /\ Carries(extracted, "total_timecards", response.payload.total_timecards)

\* C11: review-completion scoping. A complete_review call answered while the
\* job does not exist or its result does not require human review is answered
\* with an error and leaves the table unchanged; so it succeeds only on an
\* existing job that requires review.
ReviewScoping ==
    [][\A id \in JobIds :
        (/\ api_complete_review_reject(id) \/ api_complete_review_update(id)
         /\ ~(id \in DOMAIN jobs /\ jobs[id].result.validation.requires_human_review))
        => (last_review' = "error" /\ jobs' = jobs)]_vars

\* C11 witness: complete_review has been refused while the store holds a
\* Completed job whose verdict asks for no review.
ReviewScopingWitness ==
    /\ last_review = "error"
    /\ \E j \in DOMAIN jobs :
        /\ jobs[j].status = COMPLETED
        /\ jobs[j].result.status = "success"
        /\ ~jobs[j].result.validation.requires_human_review

\* C12: a successful complete_review leaves status, progress, error,
\* started_at and completed_at of the job as they were.
ReviewFrame ==
    [][\A id \in DOMAIN jobs :
        api_complete_review_update(id) =>
            /\ jobs'[id].status = jobs[id].status
            /\ jobs'[id].progress = jobs[id].progress
            /\ jobs'[id].error = jobs[id].error
            /\ jobs'[id].started_at = jobs[id].started_at
            /\ jobs'[id].completed_at = jobs[id].completed_at]_vars

\* C13: review completion is idempotent. A complete_review that read a result
\* already marked reviewed, on a Completed job unchanged since, leaves every
\* field of the job as the first call left it (review_completed_at aside).
ReviewIdempotent ==
    [][\A id \in DOMAIN jobs :
        (/\ api_complete_review_update(id)
         /\ review_req[id] = jobs[id].result
         /\ jobs[id].result.validation.review_completed
         /\ jobs[id].status = COMPLETED)
        => [jobs'[id] EXCEPT !.result.validation.review_completed_at = NullTime]
            = [jobs[id] EXCEPT !.result.validation.review_completed_at = NullTime]]_vars

\* C14: once result.validation.review_completed is true it stays true for as
\* long as the job exists.
ReviewCompletedStable ==
    [][\A j \in DOMAIN jobs \cap DOMAIN jobs' :
        jobs[j].result.validation.review_completed
            => jobs'[j].result.validation.review_completed]_vars

\* C14 witness: a reviewed job whose worker has finished and for which another
\* review request is past its check.
ReviewCompletedStableWitness ==
    \E j \in DOMAIN jobs :
        /\ jobs[j].result.validation.review_completed
        /\ worker_pc[j] = "done"
        /\ j \in DOMAIN review_req

\* C15: a job whose status is Completed has a non-null result.
CompletedHasResult ==
    \A j \in DOMAIN jobs : jobs[j].status = COMPLETED => jobs[j].result # NullResult

\* C15 witness: jobs Completed by their worker, one with a verdict and one with
\* the pipeline's error record.
CompletedHasResultWitness ==
    /\ \E j \in DOMAIN jobs :
        jobs[j].status = COMPLETED /\ jobs[j].result.status = "success"
    /\ \E j \in DOMAIN jobs :
        jobs[j].status = COMPLETED /\ jobs[j].result.status = "error"

\* C16: a job's error field is non-null only if its status is Failed.
ErrorOnlyWhenFailed ==
    \A j \in DOMAIN jobs : jobs[j].error # NullStr => jobs[j].status = FAILED

\* C17: every job in a terminal status has completed_at set.
TerminalHasCompletedAt ==
    \A j \in DOMAIN jobs :
        jobs[j].status \in TerminalStatus => jobs[j].completed_at # NullTime

\* C18: completed_at, once set, never changes.
CompletedAtWrittenOnce ==
    [][\A j \in DOMAIN jobs \cap DOMAIN jobs' :
        jobs[j].completed_at # NullTime
            => jobs'[j].completed_at = jobs[j].completed_at]_vars

\* C19: the delete endpoint never removes a job whose stored status is Pending
\* or Processing.
DeleteOnlyTerminal ==
    [][\A id \in DOMAIN jobs :
        api_delete_job_delete(id) => jobs[id].status \notin {PENDING, PROCESSING}]_vars

\* C20: cleanup_old_jobs(days) removes exactly the terminal jobs whose
\* completed_at is before now - days, returns their number, and leaves every
\* other job, the Pending and Processing ones among them, as it was.
CleanupExact ==
    [][\A days \in 0..MaxDays :
        api_cleanup_queue(days) =>
            LET old == {j \in DOMAIN jobs :
                            /\ jobs[j].status \in TerminalStatus
                            /\ jobs[j].completed_at # NullTime
                            /\ jobs[j].completed_at < clock - days}
            IN /\ DOMAIN jobs' = DOMAIN jobs \ old
               /\ last_cleanup' = Cardinality(old)
               /\ \A j \in DOMAIN jobs' : jobs'[j] = jobs[j]
               /\ \A j \in DOMAIN jobs :
                    jobs[j].status \in {PENDING, PROCESSING} => j \in DOMAIN jobs']_vars

\* C20 witness: of two jobs created, a cleanup removed one and kept the other,
\* which is terminal too.
CleanupExactWitness ==
    /\ last_cleanup = 1
    /\ next_id = 3
    /\ Cardinality(DOMAIN jobs) = 1
    /\ \E j \in DOMAIN jobs : jobs[j].status \in TerminalStatus


\* C21: external intervention dominates. Whenever the guardrail action of the
\* provider's answer is GUARDRAIL_INTERVENED or BLOCKED, the verdict is INVALID
\* with reasoning_confidence at most 0.3, whatever the findings and the local
\* checks say.
InterventionDominates ==
    (/\ pipe_pc = "validated"
     /\ response.guardrail_action \in {"GUARDRAIL_INTERVENED", "BLOCKED"})
    => /\ validation.validation_result = "INVALID"
       /\ validation.reasoning_confidence <= 30

\* C22: when a finding tagged invalid came back and the guardrail did not
\* intervene, the verdict is INVALID with reasoning_confidence at most 0.5.
InvalidFindingInvalidates ==
    (/\ pipe_pc = "validated"
     /\ response.outcome \in Extractable
     /\ response.guardrail_action = "NONE"
     /\ \E i \in DOMAIN response.findings : response.findings[i].kind = "invalid")
    => /\ validation.validation_result = "INVALID"
       /\ validation.reasoning_confidence <= 50

\* C23: local checks override a clean external pass. When the consistency
\* check of the extracted record failed, the verdict is INVALID even though
\* findings came back and none of them indicates an error.
LocalChecksOverride ==
    (/\ pipe_pc = "validated"
     /\ response.outcome \in Extractable
     /\ response.findings # <<>>
     /\ \A i \in DOMAIN response.findings :
            response.findings[i] = Finding("valid", FALSE, "NULL")
     /\ ~extracted.mathematical_consistency)
    => validation.validation_result = "INVALID"


\* C24: issue accumulation. For a record with entries, the engine's error list
\* holds one issue for each violated check (sum, average, employee count,
\* timecard count, entry integrity) and none for a check that passes.
ErrorKinds == {report.errors[i].kind : i \in DOMAIN report.errors}
ViolatedChecks ==
    (IF ~report.sum_correct THEN {"Sum calculation error"} ELSE {})
    \cup (IF ~report.average_correct THEN {"Average calculation error"} ELSE {})
    \cup (IF Cardinality(EmployeesOf(record.daily_entries)) # record.employee_count
          THEN {"Employee count mismatch"} ELSE {})
    \cup (IF Len(record.daily_entries) # record.total_days
          THEN {"Timecard count mismatch"} ELSE {})
    \cup (IF ~report.data_integrity THEN {"Data integrity issues"} ELSE {})
SumCheck ==
    (report # NoRecord /\ record.daily_entries # <<>>)
    => LET actual_sum == SumRates(record.daily_entries)
           within == Abs(actual_sum - record.total_wage) <= Tolerance
       IN  /\ report.sum_correct <=> within
           /\ ~within =>
                /\ ~report.is_consistent
                /\ \E i \in DOMAIN report.errors :
                    report.errors[i] =
                        Issue("Sum calculation error", record.total_wage, actual_sum)

\* C26: average check. For a record with entries the average check passes iff
\* the actual sum of the rates divided by the number of entries and
\* average_daily_rate differ by at most 0.01, in the boolean answers and in
\* the error list alike.
AverageCheck ==
    (report # NoRecord /\ record.daily_entries # <<>>)
    => LET n == Len(record.daily_entries)
           within == Abs(SumRates(record.daily_entries) - n * record.average_daily_rate)
                         <= n * Tolerance
       IN  /\ report.average_correct <=> within
           /\ report.is_consistent => within
           /\ "Average calculation error" \in ErrorKinds <=> ~within

\* C27: count check. For a record with entries the count check passes iff the
\* number of distinct employee names equals employee_count and the number of
\* entries equals total_timecards; a failure is listed under the counter that
\* disagrees.
CountCheck ==
    (report # NoRecord /\ record.daily_entries # <<>>)
    => LET employees_agree ==
               Cardinality(EmployeesOf(record.daily_entries)) = record.employee_count
           timecards_agree == Len(record.daily_entries) = record.total_timecards
       IN  /\ report.count_correct <=> (employees_agree /\ timecards_agree)
           /\ "Employee count mismatch" \in ErrorKinds <=> ~employees_agree
           /\ "Timecard count mismatch" \in ErrorKinds <=> ~timecards_agree


\* C28: recomputation from the detail rows. After post-processing a record with
\* entries, total_timecards is the number of entries, employee_count the number
\* of distinct employee names over all entries, total_wage the sum of the rates
\* over all entries and average_daily_rate that total over the number of
\* entries, to the cent, whatever the provider reported.
RecomputedFromEntries ==
    (outputs # <<>> /\ record.daily_entries # <<>>)
    => LET es == record.daily_entries
           out == outputs[1]
       IN  /\ out.total_timecards = Len(es)
           /\ out.employee_count = Cardinality(EmployeesOf(es))
           /\ out.total_wage = SumRates(es)
           /\ out.average_daily_rate = RoundDiv(out.total_wage, Len(es))

\* C29: idempotent recomputation. Post-processing the post-processor's own
\* output gives the same aggregate fields as the first pass, for every record.
AggregateFields ==
    {"total_timecards", "employee_count", "total_wage", "average_daily_rate",
     "unique_days", "pay_period_start", "pay_period_end"}
PostProcessIdempotent ==
    \A k \in DOMAIN outputs :
        k > 1 => \A f \in AggregateFields : outputs[k][f] = outputs[k - 1][f]

\* C29 witness: a record with entries whose reported total the first pass
\* replaced, post-processed a second time.
PostProcessIdempotentWitness ==
    /\ Len(outputs) >= 2
    /\ record.daily_entries # <<>>
    /\ outputs[1].total_wage # record.total_wage
    /\ outputs[1].employee_count # record.employee_count
    /\ outputs[2].total_wage = outputs[1].total_wage


\* C30: degraded extraction. When the provider call failed, or its answer held
\* neither a tool-use payload nor a text that parses as JSON, step2 still
\* returns a record: employee_count, total_timecards, total_wage and
\* average_daily_rate are zero, daily_entries is empty, and error carries the
\* failure's message.
DegradedExtraction ==
    (pipe_pc \in {"extracted", "validated"} /\ response.outcome \notin Extractable)
    => /\ {"employee_count", "total_timecards", "total_wage", "average_daily_rate",
           "daily_entries", "error"} \subseteq DOMAIN extracted
       /\ extracted.employee_count = 0
       /\ extracted.total_timecards = 0
       /\ extracted.total_wage = 0
       /\ extracted.average_daily_rate = 0
       /\ extracted.daily_entries = <<>>
       /\ extracted.error # NullStr
       /\ response.outcome = "no_content" => extracted.error = NoContent
       /\ response.outcome = "no_text" => extracted.error = NoToolUseOrText
       /\ response.outcome = "bad_text" => extracted.error = JSONDecodeError
       /\ response.outcome = "raised" => extracted.error = ClientError

\* C30 witness: the answer was a text that is not JSON; step2 has returned the
\* degraded record with the parser's message and step3 has run on it.
DegradedExtractionWitness ==
    /\ pipe_pc = "validated"
    /\ response.outcome = "bad_text"
    /\ extracted.extraction_method = "fallback"
    /\ extracted.error = JSONDecodeError
    /\ validation.total_wage = 0


\* C36: every INVALID verdict is routed to human review. Whenever step3 returns
\* validation_result = INVALID, the same verdict has requires_human_review true.
InvalidRequiresReview ==
    (pipe_pc = "validated" /\ validation.validation_result = "INVALID")
    => validation.requires_human_review

\* C37: a failed extraction is never presented as trustworthy. When step2
\* returned the degraded record, the verdict is not VALID with
\* requires_human_review false.
DegradedNotTrusted ==
    (/\ pipe_pc = "validated"
     /\ "error" \in DOMAIN extracted
     /\ extracted.extraction_method = "fallback")
    => ~(/\ validation.validation_result = "VALID"
         /\ ~validation.requires_human_review)

\* C39: the two implementations of the local consistency decision agree. For
\* every record, _is_mathematically_consistent is true iff the error list is
\* empty, iff the four checks all return true; records without entries and
\* differences of exactly 0.01 included.
ConsistencyViewsAgree ==
    report # NoRecord
    => /\ report.is_consistent <=> report.errors = <<>>
       /\ report.is_consistent <=>
            (/\ report.sum_correct
             /\ report.average_correct
             /\ report.count_correct
             /\ report.data_integrity)


\* C34: progress is an integer in 0..100 and no step lowers the progress stored
\* for a job: 0 at creation, then the worker's checkpoints, 100 on completion;
\* a job that fails or is stopped keeps the progress written last.
ProgressMonotone ==
    [][/\ \A j \in DOMAIN jobs' : jobs'[j].progress \in 0..100
       /\ \A j \in DOMAIN jobs \cap DOMAIN jobs' :
            jobs'[j].progress >= jobs[j].progress]_vars

\* C34 witness: one job ran to Completed with progress 100, another was stopped
\* after its second checkpoint and still shows that checkpoint.
ProgressMonotoneWitness ==
    /\ \E j \in DOMAIN jobs : jobs[j].status = COMPLETED /\ jobs[j].progress = 100
    /\ \E j \in DOMAIN jobs :
        /\ jobs[j].status = CANCELLED
        /\ jobs[j].error = StoppedByUser
        /\ jobs[j].progress = 90


\* C40: the two views of the review queue agree. In every state the
\* review_queue count of get_queue_stats equals the number of items the
\* review-queue listing returns, both being the number of Completed jobs whose
\* verdict asks for a review that has not been completed.
ReviewViewsAgree ==
    /\ get_queue_stats_review_queue(jobs) = Cardinality(get_review_queue(jobs))
    /\ get_review_queue(jobs) =
        {j \in DOMAIN jobs :
            /\ jobs[j].status = COMPLETED
            /\ jobs[j].result.status # "NULL"
            /\ jobs[j].result.validation.requires_human_review
            /\ ~jobs[j].result.validation.review_completed}


\* C31: bounded retry. A run of _call_bedrock_with_retry calls the provider at
\* most 5 times; every call but the last one ended in ThrottlingException or
\* TooManyRequestsException; an answer is returned at once; any other error is
\* raised by the call that met it; a rate-limit error is raised exactly when 5
\* calls in a row were rate-limited; and a run under way always ends.
RetryLast == converse_log[Len(converse_log)]
RetrySafety ==
    /\ Len(converse_log) <= 5
    /\ retry_pc # "idle" => Len(converse_log) \in {attempt, attempt + 1}
    /\ \A i \in 1..(Len(converse_log) - 1) : converse_log[i] \in RateLimitCodes
    /\ retry_pc = "returned" <=> (converse_log # <<>> /\ RetryLast = "ok")
    /\ retry_pc = "raised" =>
        /\ converse_log # <<>> /\ retry_raised = RetryLast
        /\ RetryLast \in RateLimitCodes => Len(converse_log) = 5
    /\ (converse_log # <<>> /\ RetryLast \notin RateLimitCodes \cup {"ok"})
        => (retry_pc = "raised" /\ retry_raised = RetryLast)
    /\ (converse_log # <<>> /\ RetryLast \in RateLimitCodes)
        => (retry_pc = "raised" <=> Len(converse_log) = 5)
BoundedRetry ==
    /\ []RetrySafety
    /\ (retry_pc = "call") ~> (retry_pc \in RunOver)
BoundedRetryWitness ==
    /\ retry_pc = "raised"
    /\ Len(converse_log) = 5
    /\ retry_raised \in RateLimitCodes
    /\ \A i \in 1..5 : converse_log[i] \in RateLimitCodes


\* C35: provisioning lock mutual exclusion. Whatever the interleaving of the
\* ensure_provisioned calls, at most one of them is inside the lock-protected
\* section at a time.
ProvisioningMutex ==
    Cardinality({c \in ProvCallers : prov_pc[c] = "section"}) <= 1


\* C32: slot release. Under store outages, a job entered in active_jobs is
\* eventually removed from it, whether its thread saw the pipeline succeed,
\* an exception, or its terminal status write fail.
SlotRelease ==
    \A id \in JobIds : (id \in active_jobs) ~> (id \notin active_jobs)
SlotReleaseWitness ==
    \E id \in JobIds :
        /\ worker_pc[id] = "done"
        /\ id \notin active_jobs
        /\ id \in DOMAIN jobs
        /\ jobs[id].status = PROCESSING

\* C33: scheduler liveness under faults. An exception in the loop body never
\* ends job_processor: it is back in the loop body again and again, and once
\* the store answers again a Pending job is eventually claimed.
SchedulerLive ==
    /\ []<>(sched_pc = "run")
    /\ \A id \in JobIds :
        (id \in DOMAIN jobs /\ jobs[id].status = PENDING) ~> (claim_count[id] > 0)
SchedulerLiveWitness ==
    /\ sched_pc = "backoff"
    /\ outages > 0
    /\ store_up
    /\ \E id \in DOMAIN jobs : jobs[id].status = PENDING /\ claim_count[id] = 0

\* C38: no job is left behind. With a bounded number of jobs created, the
\* store available and every thread running to its end, a Pending job is
\* eventually claimed by the scheduler (unless a user's cancel_job takes it out
\* of Pending first) and a Processing job eventually has a terminal status.
NoJobLeftBehind ==
    \A id \in JobIds :
        /\ (id \in DOMAIN jobs /\ jobs[id].status = PENDING)
            ~> (claim_count[id] > 0 \/ id \in cancel_ok)
        /\ (id \in DOMAIN jobs /\ jobs[id].status = PROCESSING)
            ~> (id \in DOMAIN jobs /\ jobs[id].status \in {COMPLETED, FAILED, CANCELLED})
NoJobLeftBehindWitness ==
    /\ active_jobs = {}
    /\ Cardinality(DOMAIN jobs) = MaxJobs
    /\ \A id \in DOMAIN jobs :
        /\ claim_count[id] = 1
        /\ worker_pc[id] = "done"
        /\ jobs[id].status \in {COMPLETED, FAILED, CANCELLED}
    /\ \E id \in DOMAIN jobs : jobs[id].status = COMPLETED
    /\ \E id \in DOMAIN jobs : jobs[id].status = FAILED

=============================================================================
